---- MODULE Spec2Model ----
(***************************************************************************)
(* Survey aggregation scripts of the Evacuation-Analysis repository:       *)
(*   processEvacuate.py / firstworkingprocessEvacuate.py  (chart scripts)  *)
(*   genetedatefilterprocess.py   (global and conditional breakdowns)      *)
(*   geneteprocess.py             (per-user breakdown)                     *)
(*   summarize_noki.py            (summary / unique answers)               *)
(* Each run reads one CSV table, computes in memory and reports.           *)
(***************************************************************************)
EXTENDS Integers, Sequences, FiniteSets, TLC

VARIABLES
    script,         \* which script (and mode) this run executes
    args,           \* its command-line arguments
    cols,           \* the columns of the CSV header
    df,             \* the CSV rows as read by pd.read_csv
    tz,             \* the time zone designator the created_at texts end with
                    \* ("Z", or "" when they carry none)
    env,            \* what the run finds outside itself: the files earlier
                    \* runs left and the responses of the server
    files,          \* the content of every file a script writes
    token,          \* download_noki_data: the token of the auth response
    requests,       \* download_noki_data: the HTTP requests sent, in order
    pc,             \* position of the run
    frame,          \* the dataframe after parsing, filtering and normalisation
                    \* (in a breakdown: the rows the question prefix selects)
    player_types,   \* process_data: latest player type per user
    evac_choices,   \* process_data: latest evacuation choice per user
    merged,         \* process_data: inner join of the two
    final_output_df,\* the breakdown table a breakdown function computed
    sessions_with_2009_answer,  \* process_and_output_percentages: the sessions
                    \* whose "First" question was answered "2009"
    filtered_df,    \* process_and_output_percentages: the rows of those sessions
    stdout,         \* what the run wrote to standard output, in order
    stderr,         \* the errors the run reported, in order
    exit_code       \* the process exit code (-1 while running)

\* the input of a run
input == <<script, args, cols, df, tz, env>>

\* the files, and the network state of download_noki_data
outside == <<files, token, requests>>

\* the tables of process_data
tables == <<frame, player_types, evac_choices, merged>>

\* the tables of the conditional breakdown
cond == <<sessions_with_2009_answer, filtered_df>>

vars == <<input, outside, pc, tables, final_output_df, cond, stdout, stderr,
          exit_code>>

----------------------------------------------------------------------------
(* Bounds of the model *)

MaxRows == 3          \* rows of an input table
MaxFilterRows == 2    \* rows of an input table of a run with a date filter
MaxTime == 2          \* distinct instants a created_at cell can hold
MaxChunks == 2        \* chunks of the streamed CSV payload

----------------------------------------------------------------------------
(* Cells and their parsing *)

\* A missing cell as pd.read_csv yields it (NaN): read_csv turns the texts
\* "", "nan", "NaN", "<NA>", ... into it, so no present cell holds this text.
NaN == "<NA>"

\* created_at cells of the CSV: 0 is an empty cell, -1 a text that is no
\* date, k >= 1 the text of instant k.
EmptyCell == 0
Garbage == -1
Times == 1..MaxTime
NaT == 0

\* an argument that was not given (start_time=None, end_time=None)
None == 0

\* no column
NoColumn == "-"

\* pd.to_datetime(df['created_at'], errors='coerce') without utc=True: the
\* column is time-zone-aware when a text that parses carries a designator
TzAware(rows) ==
    /\ tz = "Z"
    /\ \E i \in 1..Len(rows) : rows[i].created_at \notin {EmptyCell, Garbage}

\* pd.to_datetime(cell, errors='coerce'): an unparsable text becomes NaT.
\* (Without errors='coerce' the call raises on Garbage; see Unparsable.)
to_datetime(cell) == IF cell = EmptyCell \/ cell = Garbage THEN NaT ELSE cell

Unparsable(rows) == \E i \in 1..Len(rows) : rows[i].created_at = Garbage

\* Series.astype(str): a missing value becomes the text "nan".
astype_str(x) == IF x = NaN THEN "nan" ELSE x

\* str.startswith(prefix): case-sensitive comparison of the leading characters.
startswith(s, prefix) ==
    /\ Len(prefix) <= Len(s)
    /\ SubSeq(s, 1, Len(prefix)) = prefix

\* what a run writes to standard output: lines of text and CSV tables
Text(t) == [type |-> "text", text |-> t]
Table(rows) == [type |-> "table", rows |-> rows]

\* an error report: its kind and the columns it names
Err(kind, columns) == [kind |-> kind, columns |-> columns]

----------------------------------------------------------------------------
(* Files *)

OUTPUT_FILE == "NokiEvacuateOutput.csv"

PLOT_FILES ==
    {"player_breakdown.png", "evacuation_overall.png", "evacuation_by_type.png"}

\* the report of processEvacuate.py and of firstworkingprocessEvacuate.py
REPORT_FILE == "evacuation_results.html"
FIRST_REPORT_FILE == "plots_summary.html"

FileNames == {OUTPUT_FILE, REPORT_FILE, FIRST_REPORT_FILE} \cup PLOT_FILES

\* a file that does not exist, and a file holding the pieces data
NoFile == [exists |-> FALSE, data |-> <<>>]
File(data) == [exists |-> TRUE, data |-> data]

\* a piece of content, written by this run or by an earlier one
Piece(run, part) == [run |-> run, part |-> part]

\* a file an earlier run left
OldFile == File(<<Piece("earlier", "content")>>)

\* no file exists
NoFiles == [f \in FileNames |-> NoFile]

\* a token the auth response does not hold (.get('token') is None)
NoToken == "<None>"

----------------------------------------------------------------------------
(* Sequence helpers *)

Range(s) == {s[i] : i \in 1..Len(s)}

\* The rows of s at the positions in S, in order (boolean-mask indexing).
RECURSIVE PickFrom(_, _, _)
PickFrom(s, S, i) ==
    IF i > Len(s) THEN <<>>
    ELSE (IF i \in S THEN <<s[i]>> ELSE <<>>) \o PickFrom(s, S, i + 1)

Pick(s, S) == PickFrom(s, S, 1)

PermsOf(n) == {p \in [1..n -> 1..n] : \A i, j \in 1..n : i # j => p[i] # p[j]}

\* the permutations of 1..n, for every length a table of the model can have
PermTable == [n \in 0..(MaxRows + 1) |-> PermsOf(n)]

Perms(n) == PermTable[n]

\* t is a sequence over S of length 0..n
IsTable(t, S, n) == \E k \in 0..n : t \in [1..k -> S]

----------------------------------------------------------------------------
(* Chart scripts: processEvacuate.py and firstworkingprocessEvacuate.py *)

ChartScripts == {"processEvacuate", "firstworkingprocessEvacuate"}

ChartCols == {"user_id", "step_name", "answer", "created_at"}

Users == {"u1", "u2"}

\* (step_name, answer) pairs of the rows of the larger tables
GroupAnswers ==
    { <<"player_select", "Petowner">>, <<"playerselect", "Renter">>,
      <<"evacuate_select", "Yep, evacuate!">> }

\* ... and of the smaller ones: the other choice, and a step of neither group
StepAnswers ==
    GroupAnswers \cup { <<"evacuate_select", "Heck no! dont evacuate">>,
                        <<"evacuate_select", "Not sure">>,
                        <<"intro", "ok">> }

ChartRow(u, sa, c) ==
    [user_id |-> u, step_name |-> sa[1], answer |-> sa[2], created_at |-> c]

\* rows of two users, created_at empty or an instant
ChartRows == {ChartRow(u, sa, c) : u \in Users, sa \in GroupAnswers,
                                   c \in {EmptyCell} \cup Times}

\* rows of one user, of any step
ChartRowsOneUser == {ChartRow("u1", sa, c) : sa \in StepAnswers,
                                   c \in {EmptyCell} \cup Times}

\* rows whose created_at cell may also hold a text that is no date
ChartRowsAnyCell == {ChartRow("u1", sa, c) : sa \in StepAnswers,
                                   c \in {EmptyCell, Garbage} \cup Times}

PLAYER_STEPS == {"player_select", "playerselect"}
EVAC_STEPS == {"evacuate_select"}

\* the calendar day of an instant (created_at.dt.date): one instant per day
Date(t) == t

\* df['created_at'] = pd.to_datetime(df['created_at'])
ParseCreatedAt(rows) ==
    [i \in 1..Len(rows) |->
        [rows[i] EXCEPT !.created_at = to_datetime(rows[i].created_at)]]

\* df[df['created_at'].dt.date == today]; a NaT date equals no day
FilterToday(rows, today) ==
    Pick(rows, {i \in 1..Len(rows) :
        rows[i].created_at # NaT /\ Date(rows[i].created_at) = today})

\* df[df['created_at'] >= start_ts]; a comparison with NaT is False
FilterStart(rows, start) ==
    Pick(rows, {i \in 1..Len(rows) :
        rows[i].created_at # NaT /\ rows[i].created_at >= start})

\* df[df['created_at'] <= end_ts]
FilterEnd(rows, end) ==
    Pick(rows, {i \in 1..Len(rows) :
        rows[i].created_at # NaT /\ rows[i].created_at <= end})

\* the time filters of process_data, in the order the script applies them
TimeFilter(rows, a) ==
    LET r1 == IF a.only_today THEN FilterToday(rows, a.today) ELSE rows
        r2 == IF a.start # None THEN FilterStart(r1, a.start) ELSE r1
        r3 == IF a.end # None THEN FilterEnd(r2, a.end) ELSE r2
    IN  r3

\* df['answer'].replace({'Petowner': 'Pet Owner'})
Normalize(rows) ==
    [i \in 1..Len(rows) |->
        IF rows[i].answer = "Petowner"
        THEN [rows[i] EXCEPT !.answer = "Pet Owner"] ELSE rows[i]]

\* df[df['step_name'].isin(steps)]
StepRows(rows, steps) ==
    Pick(rows, {i \in 1..Len(rows) : rows[i].step_name \in steps})

\* p is an order sort_values('created_at') may produce: the default sort kind
\* is quicksort, which is not stable, so rows with equal created_at come out
\* in any order; rows with NaT are put last, in their input order.
IsSortOrder(rows, p) ==
    \A i, j \in 1..Len(rows) : i < j =>
        LET a == rows[p[i]].created_at
            b == rows[p[j]].created_at
        IN  IF a = NaT THEN b = NaT /\ p[i] < p[j]
            ELSE b = NaT \/ a <= b

\* the results rows.sort_values('created_at') can have
sort_values(rows) ==
    {[i \in 1..Len(rows) |-> rows[p[i]]] :
        p \in {q \in Perms(Len(rows)) : IsSortOrder(rows, q)}}

\* rows.drop_duplicates('user_id', keep='last')
drop_duplicates(rows) ==
    Pick(rows, {i \in 1..Len(rows) :
        \A j \in (i + 1)..Len(rows) : rows[j].user_id # rows[i].user_id})

\* [['user_id', 'answer']]
UserAnswer(rows) ==
    [i \in 1..Len(rows) |->
        [user_id |-> rows[i].user_id, answer |-> rows[i].answer]]

\* one latest-response extraction, given the sorted group rows
Extract(sorted) == UserAnswer(drop_duplicates(sorted))

\* the rows of right joined to one left row, in right's order
RECURSIVE JoinRow(_, _, _)
JoinRow(l, right, j) ==
    IF j > Len(right) THEN <<>>
    ELSE (IF right[j].user_id = l.user_id
          THEN <<[user_id |-> l.user_id, player_type |-> l.answer,
                  evacuate_choice |-> right[j].answer]>>
          ELSE <<>>) \o JoinRow(l, right, j + 1)

\* pd.merge(left, right, on='user_id', how='inner'): left's key order
RECURSIVE MergeFrom(_, _, _)
MergeFrom(left, right, i) ==
    IF i > Len(left) THEN <<>>
    ELSE JoinRow(left[i], right, 1) \o MergeFrom(left, right, i + 1)

merge(left, right) == MergeFrom(left, right, 1)

\* the first column process_data reads that the header lacks, given whether
\* the run gets past the empty-frame return
FirstMissing(c, pastEmpty) ==
    IF "created_at" \notin c THEN "created_at"
    ELSE IF ~pastEmpty THEN NoColumn
    ELSE IF "answer" \notin c THEN "answer"
    ELSE IF "step_name" \notin c THEN "step_name"
    ELSE IF "user_id" \notin c THEN "user_id"
    ELSE NoColumn

\* whether process_data returns None on this filtered frame
ReturnsNone(rows) ==
    IF script = "processEvacuate" THEN rows = <<>>
    ELSE args.only_today /\ rows = <<>>

\* an exception nothing catches: the traceback goes to stderr, exit code 1
Crash(kind, columns) ==
    /\ pc' = "crashed"
    /\ exit_code' = 1
    /\ stderr' = <<Err(kind, columns)>>
    /\ UNCHANGED <<input, outside, tables, final_output_df, cond, stdout>>

\* process_data(csv_file, only_today, start_time, end_time), called by main
process_data ==
    /\ pc = "start"
    /\ script \in ChartScripts
    /\ IF cols = {} \/ "created_at" \notin cols \/ Unparsable(df)
       THEN IF cols = {} THEN Crash("EmptyDataError", {})
            ELSE IF "created_at" \notin cols
            THEN Crash("KeyError", {"created_at"})
            ELSE Crash("ValueError", {})
       ELSE LET filtered == TimeFilter(ParseCreatedAt(df), args)
            IN  IF ReturnsNone(filtered)
                THEN /\ pc' = "done"
                     /\ exit_code' = 0
                     /\ stdout' = <<Text("No data found")>>
                     /\ frame' = filtered
                     /\ UNCHANGED <<input, outside, player_types, evac_choices,
                                    merged, final_output_df, cond, stderr>>
                ELSE IF FirstMissing(cols, TRUE) # NoColumn
                THEN Crash("KeyError", {FirstMissing(cols, TRUE)})
                ELSE LET norm == Normalize(filtered)
                     IN  \E s1 \in sort_values(StepRows(norm, PLAYER_STEPS)),
                            s2 \in sort_values(StepRows(norm, EVAC_STEPS)) :
                            /\ frame' = norm
                            /\ player_types' = Extract(s1)
                            /\ evac_choices' = Extract(s2)
                            /\ merged' = merge(Extract(s1), Extract(s2))
                            /\ pc' = "processed"
                            /\ UNCHANGED <<input, outside, final_output_df, cond,
                                           stdout, stderr, exit_code>>

NoFilter == [only_today |-> FALSE, today |-> 1, start |-> None, end |-> None]

\* the arguments of a run; today is the day the run happens on (it is read
\* only under --today); the first script has no --start and --end
ChartArgs(s) ==
    LET bound == IF s = "processEvacuate" THEN {None} \cup Times ELSE {None}
    IN  {a \in [only_today : BOOLEAN, today : Times, start : bound, end : bound] :
            ~a.only_today => a.today = 1}

InitRun ==
    /\ pc = "start"
    /\ frame = <<>>
    /\ player_types = <<>>
    /\ evac_choices = <<>>
    /\ merged = <<>>
    /\ final_output_df = <<>>
    /\ sessions_with_2009_answer = {}
    /\ filtered_df = <<>>
    /\ stdout = <<>>
    /\ stderr = <<>>
    /\ exit_code = -1
    /\ token = NoToken
    /\ requests = <<>>

\* the tables in which each of the two users answered both questions once
PairedTables ==
    LET players == {sa \in StepAnswers : sa[1] \in PLAYER_STEPS}
        evacs == {sa \in StepAnswers : sa[1] \in EVAC_STEPS}
    IN  { << ChartRow("u1", p1, MaxTime), ChartRow("u1", e1, MaxTime),
             ChartRow("u2", p2, MaxTime), ChartRow("u2", e2, MaxTime) >> :
            p1 \in players, e1 \in evacs, p2 \in players, e2 \in evacs }

\* the output files of the chart scripts as an earlier run left them
EarlierOutputs ==
    [f \in FileNames |-> IF f = OUTPUT_FILE THEN NoFile ELSE OldFile]

InitChart ==
    /\ script \in ChartScripts
    /\ InitRun
    /\ tz = "Z"
    /\ \/ \* the plain run on a well-formed table
          /\ script = "processEvacuate"
          /\ args = NoFilter
          /\ cols = ChartCols
          /\ IsTable(df, ChartRows, MaxRows)
          /\ env = [before |-> NoFiles]
       \/ \* either script, with or without time filters
          /\ args \in ChartArgs(script)
          /\ cols = ChartCols
          /\ IsTable(df, ChartRowsOneUser, MaxFilterRows)
          /\ env \in [before : {NoFiles, EarlierOutputs}]
       \/ \* either script, two users who answered both questions
          /\ args = NoFilter
          /\ cols = ChartCols
          /\ df \in PairedTables
          /\ env \in [before : {NoFiles, EarlierOutputs}]
       \/ \* any header (none at all for an empty file), any cell
          /\ args \in {NoFilter, [NoFilter EXCEPT !.start = MaxTime]}
          /\ cols \in SUBSET ChartCols
          /\ IsTable(df, ChartRowsAnyCell, IF cols = {} THEN 0 ELSE 1)
          /\ env = [before |-> NoFiles]
    /\ files = env.before

----------------------------------------------------------------------------
(* Percentage breakdowns: genetedatefilterprocess.py and geneteprocess.py *)

\* a percentage count / total * 100, kept as the exact fraction
Pct(count, total) == [num |-> 100 * count, den |-> total]

PctLeq(p, q) == p.num * q.den <= q.num * p.den

RECURSIVE SumFrom(_, _)
SumFrom(s, i) == IF i > Len(s) THEN 0 ELSE s[i] + SumFrom(s, i + 1)

\* Series.sum()
Sum(s) == SumFrom(s, 1)

Arrange(s, p) == [i \in 1..Len(s) |-> s[p[i]]]

\* the results of sorting s, largest key first, with the default (unstable)
\* quicksort: rows with equal keys come out in any order; key[i] is the key
\* of s[i], a fraction
SortedDescending(s, key) ==
    {Arrange(s, p) : p \in {q \in Perms(Len(s)) :
        \A i, j \in 1..Len(s) : i < j => PctLeq(key[q[j]], key[q[i]])}}

\* (mutant) ascending=True
SortedAscending(s, key) ==
    {Arrange(s, p) : p \in {q \in Perms(Len(s)) :
        \A i, j \in 1..Len(s) : i < j => PctLeq(key[q[i]], key[q[j]])}}

\* df[df['question'].astype(str).str.startswith(question_prefix, na=False)]
filtered_questions_df(df_input, question_prefix) ==
    Pick(df_input, {i \in 1..Len(df_input) :
        startswith(astype_str(df_input[i].question), question_prefix)})

\* the number of rows of rows with this answer
AnswerCount(rows, a) == Cardinality({i \in 1..Len(rows) : rows[i].answer = a})

\* (mutant) value_counts(dropna=False): a missing answer is counted as well
CountedAnswersKeepNaN(rows) ==
    LET first == Pick(rows, {i \in 1..Len(rows) :
                    \A j \in 1..(i - 1) : rows[j].answer # rows[i].answer})
    IN  [k \in 1..Len(first) |->
            [answer |-> first[k].answer,
             count |-> AnswerCount(rows, first[k].answer)]]

\* the distinct answers of rows with their counts, in order of first
\* occurrence; value_counts() leaves a missing answer out (dropna=True)
CountedAnswers(rows) ==
    LET first == Pick(rows, {i \in 1..Len(rows) :
                    /\ rows[i].answer # NaN
                    /\ \A j \in 1..(i - 1) : rows[j].answer # rows[i].answer})
    IN  [k \in 1..Len(first) |->
            [answer |-> first[k].answer,
             count |-> AnswerCount(rows, first[k].answer)]]

\* filtered_questions_df['answer'].value_counts().reset_index(): sorted by
\* count, largest first
value_counts(rows) ==
    LET counted == CountedAnswers(rows)
    IN  SortedDescending(counted,
            [k \in 1..Len(counted) |-> [num |-> counted[k].count, den |-> 1]])

\* (mutant) len(answer_counts) in place of the sum of the counts
total_answers_len(answer_counts) == Len(answer_counts)

\* answer_counts['count'].sum()
total_answers(answer_counts) ==
    Sum([k \in 1..Len(answer_counts) |-> answer_counts[k].count])

\* answer_counts['percentage'] = (count / total_answers) * 100;
\* answer_counts[['answer', 'percentage']]
AnswerPercentage(answer_counts) ==
    [k \in 1..Len(answer_counts) |->
        [answer |-> answer_counts[k].answer,
         percentage |-> Pct(answer_counts[k].count,
                            total_answers(answer_counts))]]

\* (mutant) .sort_values(by='percentage'), ascending
SortByPercentageAscending(rows) ==
    SortedAscending(rows, [k \in 1..Len(rows) |-> rows[k].percentage])

\* .sort_values(by='percentage', ascending=False)
SortByPercentage(rows) ==
    SortedDescending(rows, [k \in 1..Len(rows) |-> rows[k].percentage])

\* calculate_aggregated_answer_percentages(df_input, question_prefix): the
\* tables it can return (the empty table when nothing is to be reported)
calculate_aggregated_answer_percentages(df_input, question_prefix) ==
    LET filtered == filtered_questions_df(df_input, question_prefix)
    IN  IF filtered = <<>> THEN {<<>>}
        ELSE UNION {
            IF total_answers(answer_counts) = 0 THEN {<<>>}
            ELSE SortByPercentage(AnswerPercentage(answer_counts)) :
            answer_counts \in value_counts(filtered)}


\* hashed_user_id and answer values in ascending (lexical) order
UserOrder == <<"h1", "h2">>
AnswerOrder == <<"2009", "A", "B">>

Rank(x, order) == CHOOSE i \in 1..Len(order) : order[i] = x

\* the (hashed_user_id, answer) group keys in the order groupby sorts them
GroupKeys ==
    [k \in 1..(Len(UserOrder) * Len(AnswerOrder)) |->
        [hashed_user_id |-> UserOrder[((k - 1) \div Len(AnswerOrder)) + 1],
         answer |-> AnswerOrder[((k - 1) % Len(AnswerOrder)) + 1]]]

GroupSize(rows, key) ==
    Cardinality({i \in 1..Len(rows) :
        /\ rows[i].hashed_user_id = key.hashed_user_id
        /\ rows[i].answer = key.answer})

\* groupby(['hashed_user_id', 'answer']).size().reset_index(name='count'):
\* one row per key that occurs, keys ascending; a row with a missing
\* hashed_user_id or answer is in no group (dropna=True)
groupby_size(rows) ==
    LET present == Pick(GroupKeys,
                    {k \in 1..Len(GroupKeys) : GroupSize(rows, GroupKeys[k]) > 0})
    IN  [k \in 1..Len(present) |->
            [hashed_user_id |-> present[k].hashed_user_id,
             answer |-> present[k].answer,
             count |-> GroupSize(rows, present[k])]]

\* answer_counts.groupby('hashed_user_id')['count'].sum(), looked up by the
\* merge on hashed_user_id
total_answers_per_user(answer_counts, u) ==
    Sum([k \in 1..Len(answer_counts) |->
        IF answer_counts[k].hashed_user_id = u
        THEN answer_counts[k].count ELSE 0])

\* merged_df['percentage'] = (count / total_answers) * 100;
\* merged_df[['hashed_user_id', 'answer', 'percentage']]
UserAnswerPercentage(answer_counts) ==
    [k \in 1..Len(answer_counts) |->
        [hashed_user_id |-> answer_counts[k].hashed_user_id,
         answer |-> answer_counts[k].answer,
         percentage |->
            Pct(answer_counts[k].count,
                total_answers_per_user(answer_counts,
                                       answer_counts[k].hashed_user_id))]]

UserThenPercentage(a, b) ==
    \/ Rank(a.hashed_user_id, UserOrder) < Rank(b.hashed_user_id, UserOrder)
    \/ /\ a.hashed_user_id = b.hashed_user_id
       /\ PctLeq(b.percentage, a.percentage)

\* .sort_values(by=['hashed_user_id', 'percentage'], ascending=[True, False]):
\* a sort on several columns is a stable lexsort, so rows with equal keys
\* keep their order
SortByUserThenPercentage(rows) ==
    Arrange(rows, CHOOSE q \in Perms(Len(rows)) :
        \A i, j \in 1..Len(rows) : i < j =>
            /\ UserThenPercentage(rows[q[i]], rows[q[j]])
            /\ UserThenPercentage(rows[q[j]], rows[q[i]]) => q[i] < q[j])

\* the columns of required_cols the header lacks
Missing(required_cols) == required_cols \ cols

\* sys.stderr.write("Error: Missing expected columns: ..."); sys.exit(1)
ExitMissing(missing) ==
    /\ pc' = "exited"
    /\ exit_code' = 1
    /\ stderr' = <<Err("MissingColumns", missing)>>
    /\ UNCHANGED <<input, outside, tables, final_output_df, cond, stdout>>

\* except pd.errors.EmptyDataError: an input without a header line
ExitEmptyData ==
    /\ pc' = "exited"
    /\ exit_code' = 1
    /\ stderr' = <<Err("EmptyDataError", {})>>
    /\ UNCHANGED <<input, outside, tables, final_output_df, cond, stdout>>

DROUGHT_COLS == {"hashed_user_id", "question", "answer"}

NO_NOW_INPUT == Text("No questions starting with 'Now,' found in the input.")

\* geneteprocess.py: calculate_drought_answer_percentages()
calculate_drought_answer_percentages ==
    /\ pc = "start"
    /\ script = "geneteprocess"
    /\ IF cols = {} THEN ExitEmptyData
       ELSE IF Missing(DROUGHT_COLS) # {} THEN ExitMissing(Missing(DROUGHT_COLS))
       ELSE LET filtered == filtered_questions_df(df, "Now,")
            IN  /\ pc' = "done"
                /\ exit_code' = 0
                /\ frame' = filtered
                /\ IF filtered = <<>>
                   THEN /\ stdout' = <<Text("No questions starting with 'Now,' found")>>
                        /\ UNCHANGED final_output_df
                   ELSE LET final == SortByUserThenPercentage(
                                UserAnswerPercentage(groupby_size(filtered)))
                        IN  /\ final_output_df' = final
                            /\ stdout' = <<Table(final)>>
                /\ UNCHANGED <<input, outside, player_types, evac_choices, merged,
                               cond, stderr>>

\* a call of calculate_aggregated_answer_percentages(df, question_prefix)
CallAggregated ==
    /\ pc = "start"
    /\ script = "calculate_aggregated_answer_percentages"
    /\ \E out \in calculate_aggregated_answer_percentages(df, args.question_prefix) :
          final_output_df' = out
    /\ frame' = filtered_questions_df(df, args.question_prefix)
    /\ pc' = "returned"
    /\ UNCHANGED <<input, outside, player_types, evac_choices, merged, cond, stdout,
                   stderr, exit_code>>

PctCols == {"hashed_user_id", "question", "answer", "session_id", "created_at"}

PctRow(u, q, a, sid, c) ==
    [hashed_user_id |-> u, question |-> q, answer |-> a, session_id |-> sid,
     created_at |-> c]

\* the prefixes the function is called with, and the questions of its rows
Prefixes == {"Now,", "now,", "nan"}
Questions == {"Now, drought?", "now, flood?", "Nowhere?", NaN}

AggregatedRows ==
    {PctRow("h1", q, a, "s1", 1) : q \in Questions, a \in {"A", "B", NaN}}

DroughtRows ==
    {PctRow(u, q, a, "s1", 1) : u \in {"h1", "h2", NaN},
                                q \in {"Now, drought?", "First year?"},
                                a \in {"A", "B", NaN}}

InitBreakdown ==
    /\ InitRun
    /\ tz = "Z"
    /\ env = [before |-> NoFiles]
    /\ files = env.before
    /\ \/ /\ script = "calculate_aggregated_answer_percentages"
          /\ args \in [question_prefix : Prefixes]
          /\ cols = PctCols
          /\ IsTable(df, AggregatedRows, MaxRows)
       \/ /\ script = "geneteprocess"
          /\ args = [question_prefix |-> "Now,"]
          /\ \/ /\ cols = DROUGHT_COLS
                /\ IsTable(df, DroughtRows, MaxRows)
             \/ /\ cols \in SUBSET DROUGHT_COLS
                /\ IsTable(df, DroughtRows, IF cols = {} THEN 0 ELSE 1)

NextBreakdown == CallAggregated \/ calculate_drought_answer_percentages

SpecBreakdown == InitBreakdown /\ [][NextBreakdown]_vars

----------------------------------------------------------------------------
(* genetedatefilterprocess.py: process_and_output_percentages *)

\* df['created_at'] = pd.to_datetime(..., errors='coerce');
\* df.dropna(subset=['created_at'], inplace=True)
ParseAndDropNaT(rows) ==
    LET parsed == ParseCreatedAt(rows)
    IN  Pick(parsed, {i \in 1..Len(parsed) : parsed[i].created_at # NaT})

\* the messages and headings the function writes
HEADING_ALL == Text("--- Overall Percentage of Answers for Questions Starting with 'Now,' (All Data) ---")
HEADING_2009 == Text("--- Overall Percentage of '2009' Answers for Questions Starting with 'First' ---")
HEADING_FILTERED == Text("--- Overall Percentage of Answers for Questions Starting with 'Now,' (Filtered by 'First' = '2009') ---")
NO_DATA_AFTER == Text("No data found on or after start_date after filtering.")
NO_NOW_ALL == Text("No questions starting with 'Now,' found in the full dataset (after date filter if applied).")
NO_FIRST == Text("No questions starting with 'First' found in the dataset (after date filter if applied).")
NO_SESSIONS == Text("No sessions found where answer to a 'First' question was '2009'.")
NO_FILTERED_PCT == Text("Therefore, no filtered percentages for 'Now,' questions can be calculated.")
NO_NOW_FILTERED == Text("No questions starting with 'Now,' found in the filtered dataset (after date filter if applied).")

\* "Overall percentage of '2009' answers for 'First' questions: ..."
Pct2009Line(p) == [type |-> "pct2009", percentage |-> p]

\* a breakdown as the function writes it: the CSV table, or the message
TableOr(out, message) == IF out # <<>> THEN Table(out) ELSE message

\* the second output: the share of "2009" among the rows of "First" questions
SecondOutput(rows) ==
    LET first_questions_overall_df == filtered_questions_df(rows, "First")
        total_first_questions_answered == Len(first_questions_overall_df)
        answers_2009_count == AnswerCount(first_questions_overall_df, "2009")
    IN  IF first_questions_overall_df = <<>> THEN NO_FIRST
        ELSE Pct2009Line(Pct(answers_2009_count, total_first_questions_answered))

\* first_questions_df[first_questions_df['answer'] == "2009"]['session_id']
\* .unique(): the missing value is one of the values unique() returns
SessionsWith2009(rows) ==
    LET first_questions_df == filtered_questions_df(rows, "First")
    IN  {first_questions_df[i].session_id :
            i \in {j \in 1..Len(first_questions_df) :
                        first_questions_df[j].answer = "2009"}}

\* df[df['session_id'].isin(sessions)]: isin matches a missing session_id
\* with a missing value among the sessions
SessionRows(rows, sessions) ==
    Pick(rows, {i \in 1..Len(rows) : rows[i].session_id \in sessions})

Finish(out) ==
    /\ pc' = "done"
    /\ exit_code' = 0
    /\ stdout' = out
    /\ UNCHANGED <<input, outside, player_types, evac_choices, merged, final_output_df,
                   stderr>>

\* except Exception: the ValueError of an unparsable start date (re-raised
\* as SystemExit by the inner handler), or the TypeError of comparing a
\* time-zone-aware created_at column with the time-zone-less start_datetime
ExitError(kind) ==
    /\ pc' = "exited"
    /\ exit_code' = 1
    /\ stderr' = <<Err(kind, {})>>
    /\ UNCHANGED <<input, outside, tables, final_output_df, cond, stdout>>

\* process_and_output_percentages(start_date)
process_and_output_percentages ==
    /\ pc = "start"
    /\ script = "genetedatefilterprocess"
    /\ IF cols = {} THEN ExitEmptyData
       ELSE IF Missing(PctCols) # {} THEN ExitMissing(Missing(PctCols))
       ELSE IF args.start_date = Garbage THEN ExitError("ValueError")
       ELSE IF args.start_date # None /\ TzAware(df) THEN ExitError("TypeError")
       ELSE
        LET parsed == ParseAndDropNaT(df)
            rows == IF args.start_date # None
                    THEN FilterStart(parsed, args.start_date) ELSE parsed
            sessions == SessionsWith2009(rows)
            restricted == SessionRows(rows, sessions)
        IN  IF args.start_date # None /\ rows = <<>>
            THEN /\ Finish(<<NO_DATA_AFTER>>)
                 /\ frame' = rows
                 /\ UNCHANGED cond
            ELSE /\ frame' = rows
                 /\ sessions_with_2009_answer' = sessions
                 /\ \E all_data_percentages \in
                            calculate_aggregated_answer_percentages(rows, "Now,") :
                      IF sessions = {}
                      THEN /\ filtered_df' = filtered_df
                           /\ Finish(<<HEADING_ALL,
                                       TableOr(all_data_percentages, NO_NOW_ALL),
                                       HEADING_2009, SecondOutput(rows),
                                       HEADING_FILTERED, NO_SESSIONS,
                                       NO_FILTERED_PCT>>)
                      ELSE /\ filtered_df' = restricted
                           /\ \E filtered_data_percentages \in
                                calculate_aggregated_answer_percentages(restricted, "Now,") :
                                Finish(<<HEADING_ALL,
                                         TableOr(all_data_percentages, NO_NOW_ALL),
                                         HEADING_2009, SecondOutput(rows),
                                         HEADING_FILTERED,
                                         TableOr(filtered_data_percentages,
                                                 NO_NOW_FILTERED)>>)

Sessions == {"s1", "s2", NaN}

CondRows ==
    {PctRow("h1", q, a, sid, 1) : q \in {"Now, drought?", "First year?"},
                                  a \in {"A", "2009", NaN}, sid \in Sessions}

CondRowsAnyCell ==
    {PctRow("h1", q, a, sid, c) : q \in {"Now, drought?", "First year?"},
                                  a \in {"A", "2009"}, sid \in {"s1", NaN},
                                  c \in {EmptyCell, Garbage} \cup Times}

InitCond ==
    /\ InitRun
    /\ env = [before |-> NoFiles]
    /\ files = env.before
    /\ script = "genetedatefilterprocess"
    /\ \/ \* no --start-date, every created_at parsable
          /\ args = [start_date |-> None]
          /\ tz = "Z"
          /\ cols = PctCols
          /\ IsTable(df, CondRows, MaxRows)
       \/ \* any --start-date, any created_at cell
          /\ args \in [start_date : {None, Garbage} \cup Times]
          /\ tz \in {"", "Z"}
          /\ cols = PctCols
          /\ IsTable(df, CondRowsAnyCell, MaxFilterRows)
       \/ \* any header (none at all for an empty input)
          /\ args = [start_date |-> None]
          /\ tz = "Z"
          /\ cols \in SUBSET PctCols
          /\ IsTable(df, CondRowsAnyCell, IF cols = {} THEN 0 ELSE 1)

NextCond == process_and_output_percentages

SpecCond == InitCond /\ [][NextCond]_vars

----------------------------------------------------------------------------
(* summarize_noki.py *)

SummaryScripts == {"summarize_noki", "summarize_noki --filter-question"}

SUMMARY_COLS == {"hashed_user_id", "created_at", "question", "answer"}
FILTER_COLS == {"question", "answer"}

\* question values in ascending (lexical) order
QuestionOrder == <<"First year?", "Now, drought?">>

\* the distinct values of the answers of rows, in order of first occurrence
\* (Series.unique(), which keeps a missing value)
unique(rows) ==
    LET first == Pick(rows, {i \in 1..Len(rows) :
                    \A j \in 1..(i - 1) : rows[j].answer # rows[i].answer})
    IN  [k \in 1..Len(first) |-> first[k].answer]

\* filtered_df['answer'].dropna().unique().tolist()
unique_answers(rows) ==
    unique(Pick(rows, {i \in 1..Len(rows) : rows[i].answer # NaN}))

\* ', '.join(answers)
RECURSIVE join(_, _)
join(answers, i) ==
    IF i > Len(answers) THEN ""
    ELSE IF i = Len(answers) THEN answers[i]
    ELSE answers[i] \o ", " \o join(answers, i + 1)

\* the (hashed_user_id, created_at, question) group keys in groupby's order
SummaryKeys ==
    LET nq == Len(QuestionOrder)
        nt == MaxTime
    IN  [k \in 1..(Len(UserOrder) * nt * nq) |->
            [hashed_user_id |-> UserOrder[((k - 1) \div (nt * nq)) + 1],
             created_at |-> (((k - 1) \div nq) % nt) + 1,
             question |-> QuestionOrder[((k - 1) % nq) + 1]]]

\* the rows of one group
GroupOf(rows, key) ==
    Pick(rows, {i \in 1..Len(rows) :
        /\ rows[i].hashed_user_id = key.hashed_user_id
        /\ rows[i].created_at = key.created_at
        /\ rows[i].question = key.question})

\* the groups of df.groupby(['hashed_user_id', 'created_at', 'question']):
\* a row with a missing key is in no group (an empty created_at cell is a
\* missing key: the column is not parsed here)
SummaryGroups(rows) ==
    Pick(SummaryKeys,
         {k \in 1..Len(SummaryKeys) : GroupOf(rows, SummaryKeys[k]) # <<>>})

\* ', '.join(x.unique()) raises a TypeError on a missing answer
JoinFails(rows) ==
    \E k \in 1..Len(SummaryGroups(rows)) :
        NaN \in Range(unique(GroupOf(rows, SummaryGroups(rows)[k])))

\* summary_df, sorted by hashed_user_id and created_at (a stable sort of rows
\* that groupby already put in key order)
summary_df(rows) ==
    LET groups == SummaryGroups(rows)
    IN  [k \in 1..Len(groups) |->
            [hashed_user_id |-> groups[k].hashed_user_id,
             created_at |-> groups[k].created_at,
             question |-> groups[k].question,
             answer |-> join(unique(GroupOf(rows, groups[k])), 1)]]

\* generate_full_summary(df)
generate_full_summary ==
    /\ pc = "start"
    /\ script = "summarize_noki"
    /\ IF cols = {} THEN ExitEmptyData
       ELSE IF Missing(SUMMARY_COLS) # {} THEN ExitMissing(Missing(SUMMARY_COLS))
       ELSE IF JoinFails(df) THEN ExitError("TypeError")
       ELSE /\ Finish(<<Table(summary_df(df))>>)
            /\ UNCHANGED <<frame, cond>>

\* get_unique_answers_for_question(df, question_text) and the printing of
\* its result; its error names 'question' and 'answer', whichever is absent
get_unique_answers_for_question ==
    /\ pc = "start"
    /\ script = "summarize_noki --filter-question"
    /\ IF cols = {} THEN ExitEmptyData
       ELSE IF "question" \notin cols \/ "answer" \notin cols
       THEN ExitMissing(FILTER_COLS)
       ELSE LET filtered == Pick(df, {i \in 1..Len(df) :
                                df[i].question = args.filter_question})
                answers == unique_answers(filtered)
            IN  /\ Finish([k \in 1..Len(answers) |-> Text(answers[k])])
                /\ frame' = filtered
                /\ UNCHANGED cond

SummaryRows ==
    {PctRow(u, q, a, "s1", c) : u \in {"h1", "h2"},
                                q \in {"Now, drought?", "First year?"},
                                a \in {"A", "B", NaN}, c \in {1}}

SummaryRowsAnyCell ==
    {PctRow("h1", q, a, "s1", c) : q \in {"Now, drought?", NaN},
                                   a \in {"A", NaN}, c \in {EmptyCell} \cup Times}

InitSummary ==
    /\ InitRun
    /\ tz = "Z"
    /\ env = [before |-> NoFiles]
    /\ files = env.before
    /\ script \in SummaryScripts
    /\ args \in [filter_question :
                    IF script = "summarize_noki" THEN {NaN}
                    ELSE {"Now, drought?", "Then?"}]
    /\ \/ /\ cols = SUMMARY_COLS
          /\ IsTable(df, SummaryRows, MaxRows)
       \/ /\ cols = SUMMARY_COLS
          /\ IsTable(df, SummaryRowsAnyCell, MaxFilterRows)
       \/ /\ cols \in SUBSET SUMMARY_COLS
          /\ IsTable(df, SummaryRowsAnyCell, IF cols = {} THEN 0 ELSE 1)

NextSummary == generate_full_summary \/ get_unique_answers_for_question

SpecSummary == InitSummary /\ [][NextSummary]_vars

----------------------------------------------------------------------------
(* Chart scripts: generate_plots, create_html_report and __main__ *)

EVAC_ORDER == <<"Yep, evacuate!", "Heck no! dont evacuate">>

\* the evacuate_choice and player_type values in ascending (lexical) order,
\* the order in which groupby and unstack put their keys
ChoiceOrder == <<"Heck no! dont evacuate", "Not sure", "Yep, evacuate!">>
PlayerTypeOrder == <<"Pet Owner", "Renter">>

\* df['player_type'] and df['evacuate_choice'] as columns of answers
PlayerColumn(m) == [i \in 1..Len(m) |-> [answer |-> m[i].player_type]]
EvacColumn(m) == [i \in 1..Len(m) |-> [answer |-> m[i].evacuate_choice]]

\* a bar with the text drawn above it: f'{v}\n({p:.1f}%)'
Bar(label, count, percentage) ==
    [label |-> label, count |-> count, percentage |-> percentage]

\* the bars of counts = column.value_counts() with
\* pcts = column.value_counts(normalize=True) * 100
CountBars(counts) ==
    [k \in 1..Len(counts) |->
        Bar(counts[k].answer, counts[k].count,
            Pct(counts[k].count,
                Sum([j \in 1..Len(counts) |-> counts[j].count])))]

\* plot 1: the bars of the player types, in the orders value_counts can give
PlayerCharts(m) == {CountBars(c) : c \in value_counts(PlayerColumn(m))}

\* df['evacuate_choice'].value_counts().reindex(EVAC_ORDER, fill_value=0)
\* with ev_pcts = (ev_counts / ev_counts.sum()) * 100
ReindexedBars(m) ==
    LET ev_counts == [k \in 1..Len(EVAC_ORDER) |->
                        AnswerCount(EvacColumn(m), EVAC_ORDER[k])]
    IN  [k \in 1..Len(EVAC_ORDER) |->
            Bar(EVAC_ORDER[k], ev_counts[k], Pct(ev_counts[k], Sum(ev_counts)))]

\* plot 2: processEvacuate.py reindexes to EVAC_ORDER, the first script
\* plots value_counts() as it is
OverallCharts(m) ==
    IF script = "processEvacuate" THEN {ReindexedBars(m)}
    ELSE {CountBars(c) : c \in value_counts(EvacColumn(m))}

\* the members of the ordered sequence order that occur among vals
Present(order, vals) == Pick(order, {k \in 1..Len(order) : order[k] \in vals})

\* grouped = df.groupby(['player_type', 'evacuate_choice']).size()
\* .unstack(fill_value=0): its columns, reindexed to EVAC_ORDER by
\* processEvacuate.py only
GroupedColumns(m) ==
    IF script = "processEvacuate" THEN EVAC_ORDER
    ELSE Present(ChoiceOrder, {m[i].evacuate_choice : i \in 1..Len(m)})

\* grouped.loc[player_type, choice]
GroupedCount(m, player_type, choice) ==
    Cardinality({i \in 1..Len(m) : /\ m[i].player_type = player_type
                                   /\ m[i].evacuate_choice = choice})

\* the bars of one player type; total is grouped.sum(axis=1) of its row,
\* pct = (count / total * 100) if total > 0 else 0, and the text is drawn
\* only on a bar of height > 0
GroupBars(m, player_type) ==
    LET columns == GroupedColumns(m)
        total == Sum([k \in 1..Len(columns) |->
                        GroupedCount(m, player_type, columns[k])])
    IN  [k \in 1..Len(columns) |->
            LET count == GroupedCount(m, player_type, columns[k])
            IN  [label |-> columns[k], count |-> count,
                 percentage |-> IF total > 0 THEN Pct(count, total)
                                ELSE Pct(0, 1),
                 annotated |-> count > 0]]

\* plot 3: one group of bars per player type, in index order
GroupedChart(m) ==
    LET index == Present(PlayerTypeOrder, {m[i].player_type : i \in 1..Len(m)})
    IN  [g \in 1..Len(index) |->
            [player_type |-> index[g], bars |-> GroupBars(m, index[g])]]

\* plt.savefig(name): the file holds the chart drawn by this run
Saved(chart) == File(<<Piece("current", chart)>>)

\* what main leaves alone between process_data and the end of the run
MainKeeps ==
    UNCHANGED <<input, token, requests, tables, final_output_df, cond, stderr>>

\* generate_plots(data), called by main when data is not None
generate_plots ==
    /\ pc = "processed"
    /\ script \in ChartScripts
    /\ pc' = "plotted"
    /\ MainKeeps
    /\ UNCHANGED <<stdout, exit_code>>
    /\ IF merged = <<>>
       THEN files' = files
       ELSE \E players \in PlayerCharts(merged), overall \in OverallCharts(merged) :
              files' = [files EXCEPT
                  !["player_breakdown.png"] = Saved(players),
                  !["evacuation_overall.png"] = Saved(overall),
                  !["evacuation_by_type.png"] = Saved(GroupedChart(merged))]

\* the images the report shows: <img src="...">
REPORT_IMAGES ==
    <<"player_breakdown.png", "evacuation_overall.png", "evacuation_by_type.png">>

SUCCESS == Text("SUCCESS: Analysis Complete")

\* the report file of the script that runs
ReportFile ==
    IF script = "processEvacuate" THEN REPORT_FILE ELSE FIRST_REPORT_FILE

\* create_html_report(...) and the success message of main, after which the
\* script ends
create_html_report ==
    /\ pc = "plotted"
    /\ script \in ChartScripts
    /\ files' = [files EXCEPT ![ReportFile] = Saved(REPORT_IMAGES)]
    /\ stdout' = Append(stdout, SUCCESS)
    /\ exit_code' = 0
    /\ pc' = "done"
    /\ MainKeeps

NextChart == process_data \/ generate_plots \/ create_html_report

SpecChart == InitChart /\ [][NextChart]_vars

----------------------------------------------------------------------------
(* downloadStorms.py: download_noki_data *)

AUTH_URL == "https://fist-noki.iri.columbia.edu/token"
DATA_URL == "https://fist-noki.iri.columbia.edu/download_csv"

\* a request sent: its URL and the bearer token of its Authorization header
Request(url, bearer) == [url |-> url, bearer |-> bearer]

AUTHENTICATING == Text("Authenticating...")
DOWNLOADING == Text("Downloading data to NokiEvacuateOutput.csv...")
NO_TOKEN == Text("Error: Could not find 'token' in response.")
DOWNLOAD_COMPLETE == Text("Download complete.")
AN_ERROR_OCCURRED == Text("An error occurred")

\* the pieces of the payload the server streams, in order
Payload(n) == [k \in 1..n |-> Piece("current", k)]

\* what is left to do in every branch of the download
DownloadKeeps == UNCHANGED <<input, tables, final_output_df, cond, stderr>>

\* the run stops at position at with exit code code, having printed out
Stop(out, code, at) ==
    /\ stdout' = out
    /\ exit_code' = code
    /\ pc' = at

\* except requests.exceptions.RequestException: the failure is printed and
\* the function returns; out is what was printed before
LogFailure(out) == Stop(Append(out, AN_ERROR_OCCURRED), 0, "failed")

\* step 1: the POST to AUTH_URL, raise_for_status(), .json().get('token')
\* and the test of the token. A body that is no JSON raises an error that is
\* a RequestException in some versions of requests and a plain ValueError
\* (uncaught: traceback, exit code 1) in others.
Authenticate ==
    /\ pc = "start"
    /\ script = "downloadStorms"
    /\ requests' = Append(requests, Request(AUTH_URL, NoToken))
    /\ files' = files
    /\ DownloadKeeps
    /\ IF env.auth \in {"connection_error", "http_error"}
       THEN /\ LogFailure(<<AUTHENTICATING>>)
            /\ token' = token
       ELSE IF env.auth = "not_json"
       THEN /\ token' = token
            /\ \/ LogFailure(<<AUTHENTICATING>>)
               \/ Stop(<<AUTHENTICATING>>, 1, "crashed")
       ELSE /\ token' = env.token
            /\ IF env.token \in {NoToken, ""}
               THEN Stop(<<AUTHENTICATING, NO_TOKEN>>, 0, "failed")
               ELSE Stop(<<AUTHENTICATING>>, exit_code, "authenticated")

\* step 2: the GET to DATA_URL with the bearer token, raise_for_status(),
\* and open(OUTPUT_FILE, 'wb'), which creates the file or truncates it
RequestData ==
    /\ pc = "authenticated"
    /\ requests' = Append(requests, Request(DATA_URL, token))
    /\ token' = token
    /\ DownloadKeeps
    /\ IF env.data \in {"connection_error", "http_error"}
       THEN /\ LogFailure(Append(stdout, DOWNLOADING))
            /\ files' = files
       ELSE /\ Stop(Append(stdout, DOWNLOADING), exit_code, "streaming")
            /\ files' = [files EXCEPT ![OUTPUT_FILE] = File(<<>>)]

\* for chunk in r.iter_content(chunk_size=8192): f.write(chunk) -- one turn
\* of the loop: the next chunk arrives and is written, or the stream breaks
\* (a RequestException) and the file is closed as it is
WriteChunk ==
    /\ pc = "streaming"
    /\ Len(files[OUTPUT_FILE].data) < env.chunks
    /\ UNCHANGED <<token, requests>>
    /\ DownloadKeeps
    /\ LET next == Len(files[OUTPUT_FILE].data) + 1
       IN  IF env.fail_at = next
           THEN /\ LogFailure(stdout)
                /\ files' = files
           ELSE /\ files' = [files EXCEPT ![OUTPUT_FILE] =
                                File(Append(@.data, Payload(env.chunks)[next]))]
                /\ UNCHANGED <<stdout, pc, exit_code>>

\* the stream ended: the file is closed, "Download complete."
Complete ==
    /\ pc = "streaming"
    /\ Len(files[OUTPUT_FILE].data) = env.chunks
    /\ Stop(Append(stdout, DOWNLOAD_COMPLETE), 0, "done")
    /\ UNCHANGED outside
    /\ DownloadKeeps

\* the server's behaviour during the run, and the output file before it;
\* fail_at is the chunk at which the stream breaks (NoBreak: it does not)
NoBreak == 0

Servers ==
    {e \in [auth : {"ok", "connection_error", "http_error", "not_json"},
            token : {"tok", "", NoToken},
            data : {"ok", "connection_error", "http_error"},
            chunks : 0..MaxChunks,
            fail_at : {NoBreak} \cup 1..MaxChunks,
            before : {NoFiles, [NoFiles EXCEPT ![OUTPUT_FILE] = OldFile]}] :
        e.fail_at <= e.chunks}

InitDownload ==
    /\ InitRun
    /\ script = "downloadStorms"
    /\ args = NoFilter
    /\ cols = {}
    /\ df = <<>>
    /\ tz = "Z"
    /\ env \in Servers
    /\ files = env.before

NextDownload == Authenticate \/ RequestData \/ WriteChunk \/ Complete

SpecDownload == InitDownload /\ [][NextDownload]_vars

----------------------------------------------------------------------------
(* Every script *)

Init == InitChart \/ InitBreakdown \/ InitCond \/ InitSummary \/ InitDownload

Next == NextChart \/ NextBreakdown \/ NextCond \/ NextSummary \/ NextDownload

Spec == Init /\ [][Next]_vars

----------------------------------------------------------------------------
(* Claims on latest-response extraction and the join (process_data) *)

UsersOf(rows) == {rows[i].user_id : i \in 1..Len(rows)}

\* the rows of the question group, as process_data selects them
PlayerGroup == StepRows(frame, PLAYER_STEPS)
EvacGroup == StepRows(frame, EVAC_STEPS)

\* row i of rows has the maximum created_at among the rows of its user
\* (a missing created_at is below every instant)
IsMaxRow(rows, i) ==
    \A j \in 1..Len(rows) : rows[j].user_id = rows[i].user_id =>
        \/ rows[j].created_at = NaT
        \/ rows[i].created_at # NaT /\ rows[j].created_at <= rows[i].created_at

\* ext holds exactly one row for each user of rows, and no other user
OneRowPerUser(ext, rows) ==
    /\ UsersOf(ext) = UsersOf(rows)
    /\ \A i, j \in 1..Len(ext) : ext[i].user_id = ext[j].user_id => i = j

\* ans is the answer of a row of user u with the maximum created_at
IsLatestAnswer(rows, u, ans) ==
    \E i \in 1..Len(rows) :
        rows[i].user_id = u /\ rows[i].answer = ans /\ IsMaxRow(rows, i)

LatestOf(ext, rows) ==
    /\ OneRowPerUser(ext, rows)
    /\ \A k \in 1..Len(ext) : IsLatestAnswer(rows, ext[k].user_id, ext[k].answer)

\* C1: for each question group the extraction holds exactly one row for each
\* user with a row in the group and none for any other user, and that row's
\* answer is the answer of a row with the maximum created_at among the user's
\* rows of the group, also when some of those rows have no created_at.
C1_LatestPerUser ==
    pc = "processed" =>
        /\ LatestOf(player_types, PlayerGroup)
        /\ LatestOf(evac_choices, EvacGroup)

\* the rows of user u in rows all have a created_at, and two or more of them
\* have the maximum one
TiedAtMax(rows, u) ==
    /\ \A i \in 1..Len(rows) : rows[i].user_id = u => rows[i].created_at # NaT
    /\ \E i, j \in 1..Len(rows) :
        /\ i # j /\ rows[i].user_id = u /\ rows[j].user_id = u
        /\ IsMaxRow(rows, i) /\ IsMaxRow(rows, j)

\* the answer of the last row of rows, in input order, among the rows of
\* user u with the maximum created_at
LastTiedAnswer(rows, u) ==
    LET tied == {i \in 1..Len(rows) : rows[i].user_id = u /\ IsMaxRow(rows, i)}
        last == CHOOSE i \in tied : \A j \in tied : j <= i
    IN  rows[last].answer

KeepsLastTied(ext, rows) ==
    \A k \in 1..Len(ext) :
        TiedAtMax(rows, ext[k].user_id) =>
            ext[k].answer = LastTiedAnswer(rows, ext[k].user_id)

\* C2: when a user has two or more rows of a group with the same maximum
\* created_at, the extraction keeps the tied row that comes last in the input.
C2_TieKeepsLastInputRow ==
    pc = "processed" =>
        /\ KeepsLastTied(player_types, PlayerGroup)
        /\ KeepsLastTied(evac_choices, EvacGroup)

\* C3: the merged table holds a user iff the user is in both extractions,
\* holds each such user once, and gives the user's latest answers.
C3_MergedIsJoinOfLatest ==
    pc = "processed" =>
        /\ UsersOf(merged) = UsersOf(PlayerGroup) \cap UsersOf(EvacGroup)
        /\ \A i, j \in 1..Len(merged) :
              merged[i].user_id = merged[j].user_id => i = j
        /\ \A k \in 1..Len(merged) :
              /\ IsLatestAnswer(PlayerGroup, merged[k].user_id,
                                merged[k].player_type)
              /\ IsLatestAnswer(EvacGroup, merged[k].user_id,
                                merged[k].evacuate_choice)

----------------------------------------------------------------------------
(* Claims on the prefix-filtered percentage breakdown *)

PctEq(p, q) == p.num * q.den = q.num * p.den

PctAdd(p, q) == [num |-> p.num * q.den + q.num * p.den, den |-> p.den * q.den]

RECURSIVE PctSumFrom(_, _)
PctSumFrom(s, i) ==
    IF i > Len(s) THEN [num |-> 0, den |-> 1]
    ELSE PctAdd(s[i], PctSumFrom(s, i + 1))

\* the sum of the percentages of the rows of a breakdown
PctSum(rows) == PctSumFrom([k \in 1..Len(rows) |-> rows[k].percentage], 1)

Hundred == [num |-> 100, den |-> 1]

\* a global-mode breakdown was returned; a per-user one was written
GlobalEmitted == pc = "returned" /\ final_output_df # <<>>
PerUserEmitted == script = "geneteprocess" /\ pc = "done" /\ stdout # <<>>
                    /\ stdout[1].type = "table"

\* the number of rows of frame (the rows the prefix selected) in all, with
\* answer a, and with an answer
Selected == Len(frame)
SelectedWith(a) == Cardinality({i \in 1..Len(frame) : frame[i].answer = a})
SelectedAnswered == Cardinality({i \in 1..Len(frame) : frame[i].answer # NaN})

\* the same, of the rows of user u
UserIdx(u) == {i \in 1..Len(frame) : frame[i].hashed_user_id = u}
OfUser(u) == Cardinality(UserIdx(u))
OfUserWith(u, a) == Cardinality({i \in UserIdx(u) : frame[i].answer = a})
OfUserAnswered(u) == Cardinality({i \in UserIdx(u) : frame[i].answer # NaN})

\* C4 as stated: the percentage of an answer is its count over the number of
\* ALL selected rows (global) or ALL selected rows of the user (per user),
\* times 100, also when selected rows have no answer.
C4_PercentageOverAllMatchingRows ==
    /\ GlobalEmitted =>
        \A k \in 1..Len(final_output_df) :
            LET r == final_output_df[k]
            IN  PctEq(r.percentage, Pct(SelectedWith(r.answer), Selected))
    /\ PerUserEmitted =>
        \A k \in 1..Len(final_output_df) :
            LET r == final_output_df[k]
            IN  PctEq(r.percentage, Pct(OfUserWith(r.hashed_user_id, r.answer),
                                        OfUser(r.hashed_user_id)))

\* C4 amended: the percentage of an answer is its count over the number of
\* selected rows that HAVE an answer (global), or over the number of the
\* user's selected rows that have an answer (per user), times 100.
C4_PercentageOverAnsweredRows ==
    /\ GlobalEmitted =>
        \A k \in 1..Len(final_output_df) :
            LET r == final_output_df[k]
            IN  /\ SelectedAnswered > 0
                /\ PctEq(r.percentage,
                         Pct(SelectedWith(r.answer), SelectedAnswered))
    /\ PerUserEmitted =>
        \A k \in 1..Len(final_output_df) :
            LET r == final_output_df[k]
            IN  /\ OfUserAnswered(r.hashed_user_id) > 0
                /\ PctEq(r.percentage,
                         Pct(OfUserWith(r.hashed_user_id, r.answer),
                             OfUserAnswered(r.hashed_user_id)))

\* a breakdown of two answers was emitted from rows of which one has no answer
C4_Witness ==
    /\ GlobalEmitted \/ (PerUserEmitted /\ final_output_df # <<>>)
    /\ Len(final_output_df) >= 2
    /\ \E i \in 1..Len(frame) : frame[i].answer = NaN

\* the rows of a per-user breakdown that belong to user u
RowsOfUser(rows, u) ==
    Pick(rows, {k \in 1..Len(rows) : rows[k].hashed_user_id = u})

\* C5: whenever a breakdown table is emitted, the global-mode percentages sum
\* to 100, and the per-user percentages sum to 100 for every user in the table.
C5_PercentagesSumTo100 ==
    /\ GlobalEmitted => PctEq(PctSum(final_output_df), Hundred)
    /\ PerUserEmitted =>
        \A k \in 1..Len(final_output_df) :
            PctEq(PctSum(RowsOfUser(final_output_df,
                                    final_output_df[k].hashed_user_id)), Hundred)

\* a global breakdown of several answers whose percentages were summed,
\* from selected rows of which fewer have an answer than there are rows
C5_Witness ==
    /\ GlobalEmitted
    /\ SelectedAnswered < Selected
    /\ \E i, j \in 1..Len(final_output_df) :
          final_output_df[i].answer # final_output_df[j].answer

\* C6: the rows selected for a prefix are exactly the rows whose question is
\* present and starts with the prefix; a row without a question is never
\* selected, whatever the prefix.
C6_SelectsPresentQuestionsWithPrefix ==
    (pc = "returned" \/ (script = "geneteprocess" /\ pc = "done")) =>
        frame = Pick(df, {i \in 1..Len(df) :
                    /\ df[i].question # NaN
                    /\ startswith(df[i].question, args.question_prefix)})

\* C7: a global breakdown is in non-increasing order of percentage (rows with
\* answers A and B, one each, give A 50 and B 50); a per-user breakdown is in
\* ascending order of hashed_user_id and, within a user, in non-increasing
\* order of percentage.
C7_BreakdownOrdered ==
    /\ GlobalEmitted =>
        /\ \A i, j \in 1..Len(final_output_df) : i < j =>
              PctLeq(final_output_df[j].percentage, final_output_df[i].percentage)
        /\ (Len(frame) = 2 /\ {frame[1].answer, frame[2].answer} = {"A", "B"}) =>
              {final_output_df[k] : k \in 1..Len(final_output_df)} =
                  {[answer |-> "A", percentage |-> Pct(1, 2)],
                   [answer |-> "B", percentage |-> Pct(1, 2)]}
    /\ PerUserEmitted =>
        \A i, j \in 1..Len(final_output_df) : i < j =>
            LET a == final_output_df[i]
                b == final_output_df[j]
            IN  /\ Rank(a.hashed_user_id, UserOrder) <= Rank(b.hashed_user_id, UserOrder)
                /\ a.hashed_user_id = b.hashed_user_id =>
                      PctLeq(b.percentage, a.percentage)

\* a global breakdown of two answers with different percentages
C7_Witness ==
    /\ GlobalEmitted
    /\ Len(final_output_df) = 2
    /\ ~PctEq(final_output_df[1].percentage, final_output_df[2].percentage)
    /\ Len(frame) = 3

----------------------------------------------------------------------------
(* Claims on the conditional breakdown (process_and_output_percentages) *)

\* the run wrote its three outputs
WroteOutputs ==
    script = "genetedatefilterprocess" /\ pc = "done" /\ Len(stdout) >= 6

\* what the run wrote after the heading of the third output
ThirdOutput == SubSeq(stdout, 6, Len(stdout))

\* row r is the row of a "First" question answered "2009"
IsFirst2009(r) ==
    r.question # NaN /\ startswith(r.question, "First") /\ r.answer = "2009"

\* the condition set: the session identifiers for which some row (after the
\* date filter) has a "First" question answered "2009"
ConditionSet ==
    {frame[i].session_id :
        i \in {j \in 1..Len(frame) :
                  frame[j].session_id # NaN /\ IsFirst2009(frame[j])}}

\* the rows of the sessions of the condition set
ConditionRows ==
    Pick(frame, {i \in 1..Len(frame) : frame[i].session_id \in ConditionSet})

\* C8: the set of sessions the third output is restricted to is exactly the
\* condition set, and the third breakdown is computed over exactly the rows
\* whose session identifier is in it: no row of another session, and no row
\* without a session identifier, contributes.
C8_ConditionalOverConditionSet ==
    WroteOutputs =>
        /\ sessions_with_2009_answer = ConditionSet
        /\ ConditionSet # {} => filtered_df = ConditionRows
        /\ \A i \in 1..Len(filtered_df) : filtered_df[i].session_id # NaN

\* some row of the restricted rows has a "Now," question
HasNow(rows) ==
    \E i \in 1..Len(rows) :
        rows[i].question # NaN /\ startswith(rows[i].question, "Now,")

----------------------------------------------------------------------------
(* Claim on missing columns *)

\* the columns the script and mode of this run requires
RequiredCols ==
    IF script \in ChartScripts THEN ChartCols
    ELSE IF script = "genetedatefilterprocess" THEN PctCols
    ELSE IF script = "geneteprocess" THEN DROUGHT_COLS
    ELSE IF script = "summarize_noki" THEN SUMMARY_COLS
    ELSE FILTER_COLS

\* a script that reads a CSV table
ReadsTable ==
    script \notin {"calculate_aggregated_answer_percentages", "downloadStorms"}

\* C10: in every script and mode, a run whose input lacks a required column
\* ends with exit code 1 and an error naming exactly the absent columns, and
\* writes no aggregation output.
C10_MissingColumnsReported ==
    (/\ ReadsTable
     /\ pc # "start"
     /\ cols # {}
     /\ RequiredCols \ cols # {}) =>
        /\ exit_code = 1
        /\ Len(stderr) = 1
        /\ stderr[1].columns = RequiredCols \ cols
        /\ stdout = <<>>

----------------------------------------------------------------------------
(* Claim on the time window *)

\* the parsed rows whose created_at lies in the window of the arguments a:
\* start <= created_at <= end, each bound only if given, on the day of the
\* run if --today is given
WindowRows(rows, a) ==
    Pick(rows, {i \in 1..Len(rows) :
        /\ rows[i].created_at # NaT
        /\ a.start # None => a.start <= rows[i].created_at
        /\ a.end # None => rows[i].created_at <= a.end
        /\ a.only_today => Date(rows[i].created_at) = a.today})

\* a run of the chart script with --start or --end on a readable table
ChartWindowRun ==
    /\ script = "processEvacuate"
    /\ pc # "start"
    /\ cols = ChartCols
    /\ ~Unparsable(df)
    /\ args.start # None \/ args.end # None

\* a run of genetedatefilterprocess.py with a valid --start-date
CondWindowRun ==
    /\ script = "genetedatefilterprocess"
    /\ pc # "start"
    /\ cols = PctCols
    /\ args.start_date \in Times

\* C11: with --start and/or --end (--start-date) given, the rows that reach
\* aggregation are exactly the rows with start <= created_at <= end, bounds
\* inclusive, intersected with --today; a row at the start bound is kept and
\* a row before it is left out.
C11_WindowRowsReachAggregation ==
    /\ ChartWindowRun =>
          frame = Normalize(WindowRows(ParseCreatedAt(df), args))
    /\ CondWindowRun =>
          frame = WindowRows(ParseCreatedAt(df),
                             [NoFilter EXCEPT !.start = args.start_date])

----------------------------------------------------------------------------
(* Claim on empty data *)

\* a script with a date filter, run to its end on an empty file or on a
\* table with every column it requires
DatedRunEnded ==
    /\ script \in ChartScripts \cup {"genetedatefilterprocess"}
    /\ exit_code # -1
    /\ cols = {} \/ cols = RequiredCols

\* the rows the input has after parsing: the rows whose created_at parses
\* (for the chart scripts an empty cell parses, to NaT, and the row stays)
RowsAfterParse ==
    IF script = "genetedatefilterprocess" THEN ParseAndDropNaT(df)
    ELSE Pick(ParseCreatedAt(df),
              {i \in 1..Len(df) : df[i].created_at # Garbage})

\* the date filter the user specified, as arguments of a window
UserFilter ==
    IF script = "genetedatefilterprocess"
    THEN [NoFilter EXCEPT !.start = IF args.start_date = Garbage THEN None
                                    ELSE args.start_date]
    ELSE args

\* the input had rows after parsing and the user's date filter left none
EmptiedByFilter ==
    /\ UserFilter # NoFilter
    /\ RowsAfterParse # <<>>
    /\ RowsAfterParse = ParseCreatedAt(df)
    /\ WindowRows(RowsAfterParse, UserFilter) = <<>>

\* C12: a run whose input has no rows after parsing (empty file, header
\* only, every timestamp unparsable) ends with exit code 1; a run whose rows
\* were all removed by the user's date filter prints a "no data" message and
\* nothing else, and ends with exit code 0.
C12_EmptyDataOutcomes ==
    DatedRunEnded =>
        /\ RowsAfterParse = <<>> => exit_code = 1
        /\ EmptiedByFilter =>
              /\ exit_code = 0
              /\ Len(stdout) = 1
              /\ stdout[1].type = "text"

----------------------------------------------------------------------------
(* Claim on the download *)

\* the download ended without completing
DownloadFailed ==
    script = "downloadStorms" /\ pc \in {"failed", "crashed"}

\* C13: when the authentication, the token extraction, the data request or
\* a chunk of the stream fails, the failure is logged, the run stops and
\* NokiEvacuateOutput.csv is as it was before the run (or still absent);
\* the data request is sent only with a non-empty token.
C13_NoPartialOutput ==
    /\ DownloadFailed =>
          /\ files[OUTPUT_FILE] = env.before[OUTPUT_FILE]
          /\ pc = "failed" => stdout[Len(stdout)] \in {AN_ERROR_OCCURRED, NO_TOKEN}
    /\ script = "downloadStorms" =>
          \A k \in 1..Len(requests) :
              requests[k].url = DATA_URL =>
                  requests[k].bearer \notin {NoToken, ""}

----------------------------------------------------------------------------
(* Claims on the charts and the report (generate_plots, __main__) *)

\* file f holds a chart (or report) written by this run
WrittenNow(f) ==
    /\ files[f].exists
    /\ files[f].data # <<>>
    /\ \A k \in 1..Len(files[f].data) : files[f].data[k].run = "current"

\* the chart in file f
ChartIn(f) == files[f].data[1].part

\* generate_plots has drawn the charts of a non-empty merged table
ChartsDrawn ==
    /\ script \in ChartScripts
    /\ pc \in {"plotted", "done"}
    /\ merged # <<>>

\* among bars, "Yep, evacuate!" comes before "Heck no! dont evacuate"
EvacuateFirst(bars) ==
    \A i, j \in 1..Len(bars) :
        (bars[i].label = "Yep, evacuate!"
            /\ bars[j].label = "Heck no! dont evacuate") => i < j

\* C14: in the overall chart and in every group of the per-player-type
\* chart, of either chart script, the "Yep, evacuate!" bar is rendered
\* before the "Heck no! dont evacuate" bar, whatever their counts.
C14_EvacuateRenderedFirst ==
    ChartsDrawn =>
        /\ EvacuateFirst(ChartIn("evacuation_overall.png"))
        /\ \A g \in 1..Len(ChartIn("evacuation_by_type.png")) :
              EvacuateFirst(ChartIn("evacuation_by_type.png")[g].bars)

\* C15: after any run of processEvacuate.py, whatever the input and the
\* flags, none of the three images and the report holds content of an
\* earlier run.
C15_OutputsOverwritten ==
    (script = "processEvacuate" /\ exit_code # -1) =>
        \A f \in PLOT_FILES \cup {REPORT_FILE} :
            \A k \in 1..Len(files[f].data) : files[f].data[k].run # "earlier"

\* the run printed its success message and wrote the report
Succeeded ==
    /\ script \in ChartScripts
    /\ pc = "done"
    /\ stdout # <<>>
    /\ stdout[Len(stdout)] = SUCCESS
    /\ WrittenNow(ReportFile)

\* C16: whenever a run of a chart script prints its success message and
\* writes the report, the three images the report shows were written by
\* that run, also when the join is empty.
C16_ReportImagesWritten ==
    Succeeded =>
        \A k \in 1..Len(REPORT_IMAGES) : WrittenNow(REPORT_IMAGES[k])

\* the merged users of a player type
MergedOfType(player_type) ==
    Cardinality({i \in 1..Len(merged) : merged[i].player_type = player_type})

\* the counts of bars add up to n and their percentages are over n
CountsCover(bars, n) ==
    /\ Sum([k \in 1..Len(bars) |-> bars[k].count]) = n
    /\ \A k \in 1..Len(bars) : PctEq(bars[k].percentage, Pct(bars[k].count, n))

\* C17: in processEvacuate.py the counts of the overall evacuation chart
\* add up to the number of merged users and its percentages are over all
\* merged users; every player type of the merged table has a group in the
\* per-type chart whose counts add up to, and whose percentages are over,
\* the merged users of that type.
C17_ChartCountsCoverMerged ==
    (ChartsDrawn /\ script = "processEvacuate") =>
        /\ CountsCover(ChartIn("evacuation_overall.png"), Len(merged))
        /\ \A i \in 1..Len(merged) :
              \E g \in 1..Len(ChartIn("evacuation_by_type.png")) :
                  ChartIn("evacuation_by_type.png")[g].player_type
                      = merged[i].player_type
        /\ \A g \in 1..Len(ChartIn("evacuation_by_type.png")) :
              CountsCover(ChartIn("evacuation_by_type.png")[g].bars,
                  MergedOfType(ChartIn("evacuation_by_type.png")[g].player_type))

====
